---------------------------- MODULE Spec2Model ----------------------------
(***************************************************************************)
(* A model of the receipt OCR pipeline: the text normaliser and heuristic  *)
(* classifier of langchain_ocr/text_processor.py, the three orchestrators  *)
(* (image_processor.process_image, OCRPipeline.process_image and the graph *)
(* of create_ocr_graph) and the batch driver of process_document.py.       *)
(*                                                                         *)
(* Texts are TLA+ strings; a character is a string of length one.  Scores  *)
(* are kept as integers in sixths (0.5 = 3, 1/3 = 2, 1.0 = 6, 2.0 = 12)    *)
(* and a confidence as a fraction <<numerator, denominator>>, so that the  *)
(* comparisons of the code are exact.                                      *)
(***************************************************************************)
EXTENDS Integers, Sequences, FiniteSets, TLC

(***************************************************************************)
(* Characters and strings                                                  *)
(***************************************************************************)
Char(s, i) == SubSeq(s, i, i)

Digits == {"0", "1", "2", "3", "4", "5", "6", "7", "8", "9"}

LowerLetters == {"a", "b", "c", "d", "e", "f", "g", "h", "i", "j", "k", "l", "m",
                 "n", "o", "p", "q", "r", "s", "t", "u", "v", "w", "x", "y", "z"}

UpperLetters == {"A", "B", "C", "D", "E", "F", "G", "H", "I", "J", "K", "L", "M",
                 "N", "O", "P", "Q", "R", "S", "T", "U", "V", "W", "X", "Y", "Z"}

Whitespace == {" ", "\n", "\t", "\r"}

IsDigit(c) == c \in Digits

IsSpace(c) == c \in Whitespace

IsAlnum(c) == c \in Digits \cup LowerLetters \cup UpperLetters

\* \w of the regular expressions: a letter, a digit or the underscore
IsWord(c) == IsAlnum(c) \/ c = "_"

\* str.lower() on one character
LowerChar(c) ==
    CASE c = "A" -> "a" [] c = "B" -> "b" [] c = "C" -> "c" [] c = "D" -> "d"
      [] c = "E" -> "e" [] c = "F" -> "f" [] c = "G" -> "g" [] c = "H" -> "h"
      [] c = "I" -> "i" [] c = "J" -> "j" [] c = "K" -> "k" [] c = "L" -> "l"
      [] c = "M" -> "m" [] c = "N" -> "n" [] c = "O" -> "o" [] c = "P" -> "p"
      [] c = "Q" -> "q" [] c = "R" -> "r" [] c = "S" -> "s" [] c = "T" -> "t"
      [] c = "U" -> "u" [] c = "V" -> "v" [] c = "W" -> "w" [] c = "X" -> "x"
      [] c = "Y" -> "y" [] c = "Z" -> "z" [] OTHER -> c

RECURSIVE LowerFrom(_, _)
LowerFrom(s, i) ==
    IF i > Len(s) THEN "" ELSE LowerChar(Char(s, i)) \o LowerFrom(s, i + 1)

Lower(s) == LowerFrom(s, 1)

\* keyword in text
Contains(t, k) ==
    \E i \in 1..(Len(t) - Len(k) + 1) : SubSeq(t, i, i + Len(k) - 1) = k

\* t[i:] starts with k
StartsAt(t, i, k) == i + Len(k) - 1 <= Len(t) /\ SubSeq(t, i, i + Len(k) - 1) = k

\* the last position of the run of digits (of whitespace) that starts at i;
\* i - 1 when the run is empty
RECURSIVE DigitRunEnd(_, _)
DigitRunEnd(t, i) ==
    IF i <= Len(t) /\ IsDigit(Char(t, i)) THEN DigitRunEnd(t, i + 1) ELSE i - 1

RECURSIVE SpaceRunEnd(_, _)
SpaceRunEnd(t, i) ==
    IF i <= Len(t) /\ IsSpace(Char(t, i)) THEN SpaceRunEnd(t, i + 1) ELSE i - 1

\* str.strip()
RECURSIVE LastNonSpace(_, _)
LastNonSpace(t, j) ==
    IF j >= 1 /\ IsSpace(Char(t, j)) THEN LastNonSpace(t, j - 1) ELSE j

Strip(t) == SubSeq(t, SpaceRunEnd(t, 1) + 1, LastNonSpace(t, Len(t)))

(***************************************************************************)
(* TextProcessor.clean_text                                                *)
(***************************************************************************)
\* '\n'.join(line.strip() for line in text.split('\n'))
RECURSIVE StripLinesFrom(_, _, _)
StripLinesFrom(t, start, i) ==
    IF i > Len(t) THEN Strip(SubSeq(t, start, Len(t)))
    ELSE IF Char(t, i) = "\n"
         THEN Strip(SubSeq(t, start, i - 1)) \o "\n" \o StripLinesFrom(t, i + 1, i + 1)
         ELSE StripLinesFrom(t, start, i + 1)

StripLines(t) == StripLinesFrom(t, 1, 1)

\* re.sub(r'\b<letter>\b', digit, text): the letter standing alone as a word
AtBoundaryWord(t, i, letter) ==
    /\ Char(t, i) = letter
    /\ (i = 1 \/ ~IsWord(Char(t, i - 1)))
    /\ (i = Len(t) \/ ~IsWord(Char(t, i + 1)))

RECURSIVE SubIsolatedFrom(_, _, _, _)
SubIsolatedFrom(t, i, letter, digit) ==
    IF i > Len(t) THEN ""
    ELSE (IF AtBoundaryWord(t, i, letter) THEN digit ELSE Char(t, i))
             \o SubIsolatedFrom(t, i + 1, letter, digit)

SubIsolated(t, letter, digit) == SubIsolatedFrom(t, 1, letter, digit)

\* a match of (\d+)\s*\.\s*(\d{2}) starting at i: <<end of \1, start of \2>>,
\* or <<>> when there is none
MatchDecimalSpacing(t, i) ==
    LET d == DigitRunEnd(t, i)
        dot == SpaceRunEnd(t, d + 1) + 1
        p == SpaceRunEnd(t, dot + 1) + 1
    IN  IF /\ d >= i
           /\ dot <= Len(t) /\ Char(t, dot) = "."
           /\ p + 1 <= Len(t) /\ IsDigit(Char(t, p)) /\ IsDigit(Char(t, p + 1))
        THEN <<d, p>> ELSE <<>>

\* re.sub(r'(\d+)\s*\.\s*(\d{2})', r'\1.\2', text)
RECURSIVE FixDecimalSpacingFrom(_, _)
FixDecimalSpacingFrom(t, i) ==
    IF i > Len(t) THEN ""
    ELSE LET m == MatchDecimalSpacing(t, i)
         IN  IF m # <<>>
             THEN SubSeq(t, i, m[1]) \o "." \o SubSeq(t, m[2], m[2] + 1)
                      \o FixDecimalSpacingFrom(t, m[2] + 2)
             ELSE Char(t, i) \o FixDecimalSpacingFrom(t, i + 1)

FixDecimalSpacing(t) == FixDecimalSpacingFrom(t, 1)

\* a match of (\d+)\s+(\d{2})(?=\s|$) starting at i
MatchMissingPoint(t, i) ==
    LET d == DigitRunEnd(t, i)
        p == SpaceRunEnd(t, d + 1) + 1
    IN  IF /\ d >= i
           /\ p > d + 1
           /\ p + 1 <= Len(t) /\ IsDigit(Char(t, p)) /\ IsDigit(Char(t, p + 1))
           /\ (p + 1 = Len(t) \/ IsSpace(Char(t, p + 2)))
        THEN <<d, p>> ELSE <<>>

\* re.sub(r'(\d+)\s+(\d{2})(?=\s|$)', r'\1.\2', text)
RECURSIVE FixMissingPointFrom(_, _)
FixMissingPointFrom(t, i) ==
    IF i > Len(t) THEN ""
    ELSE LET m == MatchMissingPoint(t, i)
         IN  IF m # <<>>
             THEN SubSeq(t, i, m[1]) \o "." \o SubSeq(t, m[2], m[2] + 1)
                      \o FixMissingPointFrom(t, m[2] + 2)
             ELSE Char(t, i) \o FixMissingPointFrom(t, i + 1)

FixMissingPoint(t) == FixMissingPointFrom(t, 1)

clean_text(text) ==
    LET t1 == StripLines(text)
        t2 == SubIsolated(t1, "I", "1")
        t3 == SubIsolated(t2, "O", "0")
        t4 == SubIsolated(t3, "B", "8")
        t5 == FixDecimalSpacing(t4)
        t6 == FixMissingPoint(t5)
    IN  Strip(t6)

(***************************************************************************)
(* TextProcessor.classify_document and its two scores                      *)
(***************************************************************************)
receipt_keywords ==
    {"total", "subtotal", "tax", "tip", "merchant", "store", "change due", "cash",
     "card", "payment", "balance", "amount", "receipt", "transaction", "sale",
     "terminal", "register"}

invoice_keywords ==
    {"invoice", "due date", "amount due", "billing", "invoice number", "account",
     "payment terms", "bill to", "ship to", "po number", "order number", "net",
     "terms"}

\* a match of \$?\d+\.\d{2} starting at i: its last position, or 0
MatchPrice(t, i) ==
    LET j == IF Char(t, i) = "$" THEN i + 1 ELSE i
        d == DigitRunEnd(t, j)
    IN  IF /\ d >= j
           /\ d + 3 <= Len(t)
           /\ Char(t, d + 1) = "."
           /\ IsDigit(Char(t, d + 2)) /\ IsDigit(Char(t, d + 3))
        THEN d + 3 ELSE 0

\* len(re.findall(price_pattern, text)): the matches do not overlap
RECURSIVE PriceMatchesFrom(_, _)
PriceMatchesFrom(t, i) ==
    IF i > Len(t) THEN 0
    ELSE LET e == MatchPrice(t, i)
         IN  IF e # 0 THEN 1 + PriceMatchesFrom(t, e + 1)
             ELSE PriceMatchesFrom(t, i + 1)

PriceMatches(t) == PriceMatchesFrom(t, 1)

AllDigits(t, a, b) == b <= Len(t) /\ \A k \in a..b : IsDigit(Char(t, k))

AllSpaces(t, a, b) == b <= Len(t) /\ \A k \in a..b : IsSpace(Char(t, k))

\* re.search(r'\d{1,2}[/-]\d{1,2}[/-]\d{2,4}', text)
HasDate(t) ==
    \E i \in 1..Len(t) : \E a \in 1..2 : \E b \in 1..2 :
        /\ AllDigits(t, i, i + a - 1)
        /\ i + a <= Len(t) /\ Char(t, i + a) \in {"/", "-"}
        /\ AllDigits(t, i + a + 1, i + a + b)
        /\ i + a + b + 1 <= Len(t) /\ Char(t, i + a + b + 1) \in {"/", "-"}
        /\ AllDigits(t, i + a + b + 2, i + a + b + 3)

\* re.search(r'inv[oice]*[^a-zA-Z0-9]?\s*#?\s*\d+', text, re.IGNORECASE)
HasInvoiceNumber(t) ==
    \E i \in 1..Len(t) :
        /\ StartsAt(t, i, "inv")
        /\ \E a \in (i + 3)..Len(t) :
              /\ \A k \in (i + 3)..(a - 1) : LowerChar(Char(t, k)) \in {"o", "i", "c", "e"}
              /\ \E b \in {a, a + 1} :
                    /\ b <= Len(t)
                    /\ (b = a + 1 => ~IsAlnum(Char(t, a)))
                    /\ \E c \in b..Len(t) :
                          /\ AllSpaces(t, b, c - 1)
                          /\ \E d \in {c, c + 1} :
                                /\ d <= Len(t)
                                /\ (d = c + 1 => Char(t, c) = "#")
                                /\ \E e \in d..Len(t) :
                                      AllSpaces(t, d, e - 1) /\ IsDigit(Char(t, e))

\* re.search(r'due\s+date|payment\s+due', text, re.IGNORECASE)
HasDueDate(t) ==
    LET lt == Lower(t)
    IN  \E i \in 1..Len(t) :
          \/ /\ StartsAt(lt, i, "due")
             /\ SpaceRunEnd(lt, i + 3) >= i + 3
             /\ StartsAt(lt, SpaceRunEnd(lt, i + 3) + 1, "date")
          \/ /\ StartsAt(lt, i, "payment")
             /\ SpaceRunEnd(lt, i + 7) >= i + 7
             /\ StartsAt(lt, SpaceRunEnd(lt, i + 7) + 1, "due")

ReceiptKeywordMatches(t) == Cardinality({k \in receipt_keywords : Contains(t, k)})

InvoiceKeywordMatches(t) == Cardinality({k \in invoice_keywords : Contains(t, k)})

Min(a, b) == IF a <= b THEN a ELSE b

\* _calculate_receipt_score, in sixths
calculate_receipt_score(t) ==
    3 * ReceiptKeywordMatches(t)
      + Min(2 * PriceMatches(t), 12)
      + (IF HasDate(t) THEN 6 ELSE 0)

\* _calculate_invoice_score, in sixths
calculate_invoice_score(t) ==
    3 * InvoiceKeywordMatches(t)
      + (IF HasInvoiceNumber(t) THEN 12 ELSE 0)
      + (IF HasDueDate(t) THEN 6 ELSE 0)

\* fractions <<n, d>> with d > 0
FracGt(x, y) == x[1] * y[2] > y[1] * x[2]

FracMax(x, y) == IF FracGt(y, x) THEN y ELSE x

\* a variant of Decide that returns the scores themselves as confidences
Decide_raw_score(receipt_score, invoice_score) ==
    IF receipt_score >= 12 /\ 10 * receipt_score > 6 * (receipt_score + invoice_score)
    THEN [type |-> "receipt", confidence |-> <<receipt_score, 6>>]
    ELSE IF invoice_score >= 12 /\ 10 * invoice_score > 6 * (receipt_score + invoice_score)
    THEN [type |-> "invoice", confidence |-> <<invoice_score, 6>>]
    ELSE [type |-> "other",
          confidence |-> FracMax(<<receipt_score, 6>>, <<invoice_score, 6>>)]

\* a variant of Decide with the confidence threshold 0.8 in place of 0.6
Decide_strict(receipt_score, invoice_score) ==
    LET total_score == receipt_score + invoice_score
        receipt_confidence ==
            IF total_score > 0 THEN <<receipt_score, total_score>> ELSE <<0, 1>>
        invoice_confidence ==
            IF total_score > 0 THEN <<invoice_score, total_score>> ELSE <<0, 1>>
    IN  IF receipt_score >= 12 /\ FracGt(receipt_confidence, <<8, 10>>)
        THEN [type |-> "receipt", confidence |-> receipt_confidence]
        ELSE IF invoice_score >= 12 /\ FracGt(invoice_confidence, <<8, 10>>)
        THEN [type |-> "invoice", confidence |-> invoice_confidence]
        ELSE [type |-> "other",
              confidence |-> FracMax(receipt_confidence, invoice_confidence)]

\* a variant of Decide with the confidence threshold 0.4 in place of 0.6
Decide_lenient(receipt_score, invoice_score) ==
    LET total_score == receipt_score + invoice_score
        receipt_confidence ==
            IF total_score > 0 THEN <<receipt_score, total_score>> ELSE <<0, 1>>
        invoice_confidence ==
            IF total_score > 0 THEN <<invoice_score, total_score>> ELSE <<0, 1>>
    IN  IF receipt_score >= 12 /\ FracGt(receipt_confidence, <<4, 10>>)
        THEN [type |-> "receipt", confidence |-> receipt_confidence]
        ELSE IF invoice_score >= 12 /\ FracGt(invoice_confidence, <<4, 10>>)
        THEN [type |-> "invoice", confidence |-> invoice_confidence]
        ELSE [type |-> "other",
              confidence |-> FracMax(receipt_confidence, invoice_confidence)]

\* the decision of classify_document on the two scores
Decide(receipt_score, invoice_score) ==
    LET total_score == receipt_score + invoice_score
        receipt_confidence ==
            IF total_score > 0 THEN <<receipt_score, total_score>> ELSE <<0, 1>>
        invoice_confidence ==
            IF total_score > 0 THEN <<invoice_score, total_score>> ELSE <<0, 1>>
    IN  IF receipt_score >= 12 /\ FracGt(receipt_confidence, <<6, 10>>)
        THEN [type |-> "receipt", confidence |-> receipt_confidence]
        ELSE IF invoice_score >= 12 /\ FracGt(invoice_confidence, <<6, 10>>)
        THEN [type |-> "invoice", confidence |-> invoice_confidence]
        ELSE [type |-> "other",
              confidence |-> FracMax(receipt_confidence, invoice_confidence)]

classify_document(text) ==
    LET t == Lower(text)
    IN  Decide(calculate_receipt_score(t), calculate_invoice_score(t))

(***************************************************************************)
(* Collaborators: what the image reader, the OCR engine and the two        *)
(* text-generation calls can answer                                        *)
(***************************************************************************)
\* str(e) of an exception raised by a collaborator; it may be empty
ExcMessages == {"", "connection refused"}

\* the raw texts the OCR engine returns in the pipeline runs
RawTexts ==
    {"",
     "Random memo with no structure",
     "STORE A\nTOTAL: $12.99\nCASH $12.99\n01/02/2023",
     " SUBTOTAL 12 50 \nTax $1 . 25\nCASH $13.75\nI item\n01/02/2023",
     "INVOICE #12\nDue Date 1-2-2023\nBill To: B"}

\* the image cannot be read, the OCR engine raises, or it returns a text
OcrOutcomes ==
    {[kind |-> "unreadable", msg |-> "Could not read image: doc.png"]}
      \cup {[kind |-> "raise", msg |-> m] : m \in ExcMessages}
      \cup {[kind |-> "text", text |-> t] : t \in RawTexts}

DocTypes == {"receipt", "invoice", "other"}

\* the confidences the classification service answers with
LlmConfidences == {<<1, 2>>, <<9, 10>>}

\* the JSON object of the receipt schema (its required fields)
ReceiptObject ==
    [store_name |-> "STORE A", date |-> "01/02/2023", items |-> <<>>,
     sub_total |-> 12, tax |-> 1, tip |-> 0, total |-> 13]

\* a chat completion either raises or carries a content that json.loads
\* parses to a value of the response schema, or does not parse
ClassifierResponses ==
    {[kind |-> "raise", msg |-> m] : m \in ExcMessages}
      \cup {[kind |-> "content", parses |-> FALSE]}
      \cup {[kind |-> "content", parses |-> TRUE,
             value |-> [type |-> t, confidence |-> c]] :
                t \in DocTypes, c \in LlmConfidences}

ExtractorResponses ==
    {[kind |-> "raise", msg |-> m] : m \in ExcMessages}
      \cup {[kind |-> "content", parses |-> FALSE]}
      \cup {[kind |-> "content", parses |-> TRUE, value |-> ReceiptObject]}

NotCalled == [kind |-> "none"]

\* json.loads(response.content)
json_loads(resp) ==
    IF resp.parses THEN [kind |-> "value", value |-> resp.value]
    ELSE [kind |-> "raise", msg |-> "Expecting value: line 1 column 1 (char 0)"]

EmptyDict == <<>>

Call(op, args) == [op |-> op, args |-> args]

CountCalls(cs, op) == Cardinality({i \in 1..Len(cs) : cs[i].op = op})

OtherMessage(doc_type) ==
    "Document type '" \o doc_type \o "' is not supported for structured data extraction"

(***************************************************************************)
(* image_processor.py                                                      *)
(***************************************************************************)
\* process_with_llm(text): the chat completion and json.loads; every
\* exception is logged and raised again
process_with_llm(llm) ==
    IF llm.kind = "raise" THEN [kind |-> "raise", msg |-> llm.msg]
    ELSE json_loads(llm)

\* a variant of the branch below in which the exception of process_with_llm
\* is not caught: it leaves process_image
ip_branch_reraise(response, llm) ==
    IF Lower(response.classification.type) \in {"receipt", "invoice"}
    THEN LET r == process_with_llm(llm)
         IN  IF r.kind = "raise"
             THEN [result |-> "raised", exc |-> r.msg, response |-> EmptyDict]
             ELSE [result |-> "returned", exc |-> "",
                   response |-> response @@ ("structured_data" :> r.value)]
    ELSE [result |-> "returned", exc |-> "",
          response |-> response @@
              ("error" :> OtherMessage(response.classification.type))]

\* the branch on the document type that ends process_image
ip_branch(response, llm) ==
    IF Lower(response.classification.type) \in {"receipt", "invoice"}
    THEN LET r == process_with_llm(llm)
         IN  IF r.kind = "raise"
             THEN [result |-> "returned", exc |-> "",
                   response |-> response @@
                       ("error" :> "LLM processing failed: " \o r.msg)]
             ELSE [result |-> "returned", exc |-> "",
                   response |-> response @@ ("structured_data" :> r.value)]
    ELSE [result |-> "returned", exc |-> "",
          response |-> response @@
              ("error" :> OtherMessage(response.classification.type))]

\* the collaborators process_image calls, in order
ip_calls(ocr) ==
    IF ocr.kind = "unreadable" THEN <<Call("read", <<>>)>>
    ELSE IF ocr.kind = "raise" THEN <<Call("read", <<>>), Call("ocr", <<>>)>>
    ELSE LET cleaned_text == clean_text(ocr.text)
             doc_type == classify_document(cleaned_text).type
         IN  <<Call("read", <<>>), Call("ocr", <<>>),
               Call("clean_text", <<ocr.text>>),
               Call("classify", <<cleaned_text>>)>>
               \o (IF Lower(doc_type) \in {"receipt", "invoice"}
                   THEN <<Call("extract", <<cleaned_text>>)>> ELSE <<>>)

\* process_image(image_path): the whole function; an exception of the
\* reading and OCR part is logged and raised again.  The processing_info
\* entry of the response (a duration) is left out.
ip_process_image(ocr, llm) ==
    IF ocr.kind # "text"
    THEN [result |-> "raised", exc |-> ocr.msg, response |-> EmptyDict]
    ELSE LET raw_text == ocr.text
             cleaned_text == clean_text(raw_text)
             response == [raw_text |-> raw_text,
                          cleaned_text |-> cleaned_text,
                          classification |-> classify_document(cleaned_text)]
         IN  ip_branch(response, llm)

(***************************************************************************)
(* langchain_ocr: the stage functions on the AgentState                    *)
(***************************************************************************)
InitialState ==
    [image_path |-> "doc.png", raw_text |-> "", cleaned_text |-> "",
     classification |-> EmptyDict, structured_data |-> EmptyDict, error |-> ""]

\* a variant of OCRProcessor.process_image whose except clause returns the
\* state without an error
ocr_process_image_silent(state, ocr) ==
    IF ocr.kind # "text"
    THEN state
    ELSE [state EXCEPT !.raw_text = ocr.text,
                       !.cleaned_text = clean_text(ocr.text)]

\* OCRProcessor.process_image
ocr_process_image(state, ocr) ==
    IF ocr.kind # "text"
    THEN [state EXCEPT !.error = "OCR processing failed: " \o ocr.msg]
    ELSE [state EXCEPT !.raw_text = ocr.text,
                       !.cleaned_text = clean_text(ocr.text)]

ocr_calls(state, ocr) ==
    IF ocr.kind = "unreadable" THEN <<Call("read", <<>>)>>
    ELSE IF ocr.kind = "raise" THEN <<Call("read", <<>>), Call("ocr", <<>>)>>
    ELSE <<Call("read", <<>>), Call("ocr", <<>>), Call("clean_text", <<ocr.text>>)>>

\* a variant of classify_document without the early return on state['error']
DocumentClassifier_unguarded(state, resp) ==
    IF resp.kind = "raise"
    THEN [state EXCEPT !.error = "Classification failed: " \o resp.msg]
    ELSE LET j == json_loads(resp)
         IN  IF j.kind = "raise"
             THEN [state EXCEPT !.error = "Classification failed: " \o j.msg]
             ELSE [state EXCEPT !.classification = j.value]

\* DocumentClassifier.classify_document
DocumentClassifier_classify_document(state, resp) ==
    IF state.error # "" THEN state
    ELSE IF resp.kind = "raise"
    THEN [state EXCEPT !.error = "Classification failed: " \o resp.msg]
    ELSE LET j == json_loads(resp)
         IN  IF j.kind = "raise"
             THEN [state EXCEPT !.error = "Classification failed: " \o j.msg]
             ELSE [state EXCEPT !.classification = j.value]

\* whether classify_document reaches self.model.invoke
ClassifierInvoked(state) == state.error = ""

classify_calls(state) ==
    IF ClassifierInvoked(state) THEN <<Call("classify", <<state.cleaned_text>>)>>
    ELSE <<>>

\* a variant of extract_data whose except clause returns the state as it is
extract_data_swallow(state, resp) ==
    IF state.error # "" THEN [state EXCEPT !.error = OtherMessage("other")]
    ELSE IF "type" \notin DOMAIN state.classification
    THEN [state EXCEPT !.error = "Data extraction failed: 'type'"]
    ELSE IF state.classification.type = "other"
    THEN [state EXCEPT !.error = OtherMessage("other")]
    ELSE IF resp.kind = "raise" THEN state
    ELSE LET j == json_loads(resp)
         IN  IF j.kind = "raise" THEN state
             ELSE [state EXCEPT !.structured_data = j.value]

\* StructuredDataExtractor.extract_data
extract_data(state, resp) ==
    IF state.error # "" THEN [state EXCEPT !.error = OtherMessage("other")]
    ELSE IF "type" \notin DOMAIN state.classification
    THEN [state EXCEPT !.error = "Data extraction failed: 'type'"]
    ELSE IF state.classification.type = "other"
    THEN [state EXCEPT !.error = OtherMessage("other")]
    ELSE IF resp.kind = "raise"
    THEN [state EXCEPT !.error = "Data extraction failed: " \o resp.msg]
    ELSE LET j == json_loads(resp)
         IN  IF j.kind = "raise"
             THEN [state EXCEPT !.error = "Data extraction failed: " \o j.msg]
             ELSE [state EXCEPT !.structured_data = j.value]

\* whether extract_data reaches self.model.invoke
ExtractorInvoked(state) ==
    /\ state.error = ""
    /\ "type" \in DOMAIN state.classification
    /\ state.classification.type # "other"

extract_calls(state) ==
    IF ExtractorInvoked(state)
    THEN <<Call("extract", <<state.cleaned_text, state.classification.type>>)>>
    ELSE <<>>

\* should_extract of create_ocr_graph: TRUE for "extract", FALSE for END
should_extract(state) ==
    ~(state.error # "" \/ ("type" \in DOMAIN state.classification
                             /\ state.classification.type = "other"))

\* the dictionary process_document of ocr_pipeline.py returns
graph_result(final_state) ==
    [raw_text |-> final_state.raw_text,
     cleaned_text |-> final_state.cleaned_text,
     classification |-> final_state.classification,
     processing_info |-> [processing_time |-> 0],
     structured_data |-> final_state.structured_data,
     error |-> final_state.error]

(***************************************************************************)
(* State                                                                   *)
(***************************************************************************)
VARIABLES
    impl,      \* the orchestrator that runs: "image_processor", "OCRPipeline", "graph"
    pc,        \* the position of the run
    state,     \* the AgentState the langchain stages pass along
    record,    \* the dictionary returned to the caller, EmptyDict before that
    result,    \* "running", "returned" or "raised"
    calls,     \* the collaborator calls made so far, in order
    io,        \* what each collaborator answered (NotCalled when not called)
    steps,     \* the stage functions applied so far (stage specification)
    text,      \* the input of classify_document (classifier specification)
    verdict,   \* its result, EmptyDict before the call
    listing,   \* the entries of the input directory (batch specification)
    todo,      \* the entries the loop of process_folder has not reached yet
    attempts,  \* the calls of process_document made so far, in order
    outputs,   \* the files of the output directory: path -> writers, content
    docs,      \* what process_document can do on each entry of the directory
    passes,    \* the results of clean_text applied again and again (normalizer specification)
    scores,    \* <<receipt_score, invoice_score>>, in sixths (decision specification)
    runs,      \* orchestrator -> its final state and calls (equivalence specification)
    pdf_path,  \* the path given to process_document (PDF specification)
    pdf_answer \* what the PDF converter and the pages answer (PDF specification)

vars == <<impl, pc, state, record, result, calls, io, steps, text, verdict,
          listing, todo, attempts, outputs, docs, passes, scores, runs,
          pdf_path, pdf_answer>>

batchVars == <<listing, todo, attempts, outputs, docs>>

BatchIdle ==
    listing = {} /\ todo = {} /\ attempts = <<>> /\ outputs = <<>> /\ docs = {}

NoIo == [ocr |-> NotCalled, cls |-> NotCalled, ext |-> NotCalled]

ClassifierIdle == text = "" /\ verdict = EmptyDict

auxVars == <<passes, scores, runs, pdf_path, pdf_answer>>

AuxIdle ==
    passes = <<>> /\ scores = <<>> /\ runs = <<>> /\ pdf_path = "" /\ pdf_answer = NotCalled

(***************************************************************************)
(* Spec: one document through one of the three orchestrators               *)
(***************************************************************************)
Impls == {"image_processor", "OCRPipeline", "graph"}

Init ==
    /\ impl \in Impls
    /\ pc = IF impl = "image_processor" THEN "start" ELSE "ocr"
    /\ state = IF impl = "image_processor" THEN EmptyDict ELSE InitialState
    /\ record = EmptyDict
    /\ result = "running"
    /\ calls = <<>>
    /\ io = NoIo
    /\ steps = 0
    /\ ClassifierIdle
    /\ AuxIdle
    /\ BatchIdle

\* image_processor.process_image(image_path)
IP_ProcessImage ==
    /\ impl = "image_processor" /\ pc = "start"
    /\ \E ocr \in OcrOutcomes, llm \in ExtractorResponses :
          LET r == ip_process_image(ocr, llm)
              cs == ip_calls(ocr)
          IN  /\ result' = r.result
              /\ record' = r.response
              /\ calls' = cs
              /\ io' = [ocr |-> ocr, cls |-> NotCalled,
                        ext |-> IF CountCalls(cs, "extract") > 0 THEN llm
                                ELSE NotCalled]
    /\ pc' = "done"
    /\ UNCHANGED <<impl, state, steps, text, verdict, batchVars, auxVars>>

\* OCRPipeline.process_image: self.ocr_processor.process_image(state)
OP_Ocr ==
    /\ impl = "OCRPipeline" /\ pc = "ocr"
    /\ \E ocr \in OcrOutcomes :
          /\ state' = ocr_process_image(state, ocr)
          /\ calls' = calls \o ocr_calls(state, ocr)
          /\ io' = [io EXCEPT !.ocr = ocr]
    /\ IF state'.error = ""
       THEN pc' = "classify" /\ UNCHANGED <<result, record>>
       ELSE pc' = "done" /\ result' = "returned" /\ record' = state'
    /\ UNCHANGED <<impl, steps, text, verdict, batchVars, auxVars>>

\* OCRPipeline.process_image: self.document_classifier.classify_document(state)
OP_Classify ==
    /\ impl = "OCRPipeline" /\ pc = "classify"
    /\ \E resp \in ClassifierResponses :
          /\ state' = DocumentClassifier_classify_document(state, resp)
          /\ calls' = calls \o classify_calls(state)
          /\ io' = [io EXCEPT !.cls = IF ClassifierInvoked(state) THEN resp ELSE @]
    /\ IF state'.error = ""
       THEN pc' = "extract" /\ UNCHANGED <<result, record>>
       ELSE pc' = "done" /\ result' = "returned" /\ record' = state'
    /\ UNCHANGED <<impl, steps, text, verdict, batchVars, auxVars>>

\* OCRPipeline.process_image: self.data_extractor.extract_data(state), return state
OP_Extract ==
    /\ impl = "OCRPipeline" /\ pc = "extract"
    /\ \E resp \in ExtractorResponses :
          /\ state' = extract_data(state, resp)
          /\ calls' = calls \o extract_calls(state)
          /\ io' = [io EXCEPT !.ext = IF ExtractorInvoked(state) THEN resp ELSE @]
    /\ pc' = "done" /\ result' = "returned" /\ record' = state'
    /\ UNCHANGED <<impl, steps, text, verdict, batchVars, auxVars>>

\* the graph: node "ocr", then the edge to "classify"
G_Ocr ==
    /\ impl = "graph" /\ pc = "ocr"
    /\ \E ocr \in OcrOutcomes :
          /\ state' = ocr_process_image(state, ocr)
          /\ calls' = calls \o ocr_calls(state, ocr)
          /\ io' = [io EXCEPT !.ocr = ocr]
    /\ pc' = "classify"
    /\ UNCHANGED <<impl, record, result, steps, text, verdict, batchVars, auxVars>>

\* the graph: node "classify"
G_Classify ==
    /\ impl = "graph" /\ pc = "classify"
    /\ \E resp \in ClassifierResponses :
          /\ state' = DocumentClassifier_classify_document(state, resp)
          /\ calls' = calls \o classify_calls(state)
          /\ io' = [io EXCEPT !.cls = IF ClassifierInvoked(state) THEN resp ELSE @]
    /\ pc' = "route"
    /\ UNCHANGED <<impl, record, result, steps, text, verdict, batchVars, auxVars>>

\* the graph: the conditional edge should_extract after "classify"
G_Route ==
    /\ impl = "graph" /\ pc = "route"
    /\ IF should_extract(state)
       THEN pc' = "extract" /\ UNCHANGED <<result, record>>
       ELSE pc' = "done" /\ result' = "returned" /\ record' = graph_result(state)
    /\ UNCHANGED <<impl, state, calls, io, steps, text, verdict, batchVars, auxVars>>

\* the graph: node "extract", the edge to END, and process_document's return
G_Extract ==
    /\ impl = "graph" /\ pc = "extract"
    /\ \E resp \in ExtractorResponses :
          /\ state' = extract_data(state, resp)
          /\ calls' = calls \o extract_calls(state)
          /\ io' = [io EXCEPT !.ext = IF ExtractorInvoked(state) THEN resp ELSE @]
    /\ pc' = "done" /\ result' = "returned" /\ record' = graph_result(state')
    /\ UNCHANGED <<impl, steps, text, verdict, batchVars, auxVars>>

Next ==
    \/ IP_ProcessImage
    \/ OP_Ocr
    \/ OP_Classify
    \/ OP_Extract
    \/ G_Ocr
    \/ G_Classify
    \/ G_Route
    \/ G_Extract

Spec == Init /\ [][Next]_vars

\* the steps of the two langchain orchestrators
LangchainNext ==
    \/ OP_Ocr
    \/ OP_Classify
    \/ OP_Extract
    \/ G_Ocr
    \/ G_Classify
    \/ G_Route
    \/ G_Extract

\* each step of a langchain run ends (the collaborator calls return) and
\* the orchestrator goes on to the next
FairSpec == Spec /\ WF_vars(LangchainNext)

(***************************************************************************)
(* Reading a finished run                                                  *)
(***************************************************************************)
Finished == result # "running"

Returned == result = "returned"

\* a field is present when its key is there and its value is not the empty
\* one the langchain state starts with
HasError(r) == "error" \in DOMAIN r /\ r.error # ""

HasData(r) == "structured_data" \in DOMAIN r /\ r.structured_data # EmptyDict

TypeOf(r) ==
    IF "classification" \in DOMAIN r /\ "type" \in DOMAIN r.classification
    THEN r.classification.type ELSE "none"

OcrFailed == io.ocr.kind \in {"unreadable", "raise"}

ExtractFailed ==
    \/ io.ext.kind = "raise"
    \/ io.ext.kind = "content" /\ ~io.ext.parses

(***************************************************************************)
(* StageSpec: the stage functions applied to one AgentState in any order   *)
(***************************************************************************)
MaxStageSteps == 3

StageInit ==
    /\ impl = "stages"
    /\ pc = "stage"
    /\ \E ocr \in OcrOutcomes :
          /\ state = ocr_process_image(InitialState, ocr)
          /\ calls = ocr_calls(InitialState, ocr)
          /\ io = [NoIo EXCEPT !.ocr = ocr]
    /\ record = EmptyDict
    /\ result = "running"
    /\ steps = 0
    /\ ClassifierIdle
    /\ AuxIdle
    /\ BatchIdle

\* classifier.classify_document(state)
Stage_Classify ==
    /\ impl = "stages" /\ steps < MaxStageSteps
    /\ \E resp \in ClassifierResponses :
          /\ state' = DocumentClassifier_classify_document(state, resp)
          /\ calls' = calls \o classify_calls(state)
          /\ io' = [io EXCEPT !.cls = IF ClassifierInvoked(state) THEN resp ELSE @]
    /\ steps' = steps + 1
    /\ UNCHANGED <<impl, pc, record, result, text, verdict, batchVars, auxVars>>

\* extractor.extract_data(state)
Stage_Extract ==
    /\ impl = "stages" /\ steps < MaxStageSteps
    /\ \E resp \in ExtractorResponses :
          /\ state' = extract_data(state, resp)
          /\ calls' = calls \o extract_calls(state)
          /\ io' = [io EXCEPT !.ext = IF ExtractorInvoked(state) THEN resp ELSE @]
    /\ steps' = steps + 1
    /\ UNCHANGED <<impl, pc, record, result, text, verdict, batchVars, auxVars>>

StageNext == Stage_Classify \/ Stage_Extract

StageSpec == StageInit /\ [][StageNext]_vars

(***************************************************************************)
(* ClassifySpec: TextProcessor.classify_document on the texts made of the  *)
(* first MaxLines lines below, each taken or left out                      *)
(***************************************************************************)
MaxLines == 9

DocLines ==
    <<"SUBTOTAL $1.00", "Tax $2.00", "CASH $3.00", "01/02/2023", "Invoice #12",
      "Due Date", "amount due", "Random memo", "net terms", "tip 4.50",
      "Account 7", "card"  >>

RECURSIVE JoinLines(_, _)
JoinLines(picked, i) ==
    IF i > Min(MaxLines, Len(DocLines)) THEN ""
    ELSE IF i \in picked
         THEN DocLines[i] \o "\n" \o JoinLines(picked, i + 1)
         ELSE JoinLines(picked, i + 1)

Texts == {Strip(JoinLines(picked, 1)) : picked \in SUBSET (1..MaxLines)}

ClassifyInit ==
    /\ impl = "classifier"
    /\ pc = "input"
    /\ text \in Texts
    /\ verdict = EmptyDict
    /\ state = EmptyDict /\ record = EmptyDict /\ result = "running"
    /\ calls = <<>> /\ io = NoIo /\ steps = 0
    /\ BatchIdle
    /\ AuxIdle

\* text_processor.classify_document(text)
Classify ==
    /\ impl = "classifier" /\ pc = "input"
    /\ verdict' = classify_document(text)
    /\ pc' = "classified"
    /\ UNCHANGED <<impl, state, record, result, calls, io, steps, text, batchVars,
                   auxVars>>

ClassifyNext == Classify

ClassifySpec == ClassifyInit /\ [][ClassifyNext]_vars

receiptScore == calculate_receipt_score(Lower(text))

invoiceScore == calculate_invoice_score(Lower(text))

\* a fraction <<n, d>> is in [0, 1]
InUnit(c) == c[2] > 0 /\ 0 <= c[1] /\ c[1] <= c[2]

(***************************************************************************)
(* pdf_processor.py and process_document.py                                *)
(***************************************************************************)
RECURSIVE LastIndexOf(_, _, _)
LastIndexOf(p, c, j) ==
    IF j = 0 \/ Char(p, j) = c THEN j ELSE LastIndexOf(p, c, j - 1)

\* os.path.splitext(p): <<root, ext>>; the extension starts at the last dot
\* of the last component, leading dots of the component not counted
splitext(p) ==
    LET sep == LastIndexOf(p, "/", Len(p))
        dot == LastIndexOf(p, ".", Len(p))
    IN  IF dot > sep /\ \E k \in (sep + 1)..(dot - 1) : Char(p, k) # "."
        THEN <<SubSeq(p, 1, dot - 1), SubSeq(p, dot, Len(p))>>
        ELSE <<p, "">>

\* os.path.join(a, b) for a relative b
path_join(a, b) ==
    IF a = "" \/ Char(a, Len(a)) = "/" THEN a \o b ELSE a \o "/" \o b

Raised(msg) == [result |-> "raised", exc |-> msg, response |-> EmptyDict]

\* the loop of process_pdf over the page images, from page i on
RECURSIVE pdf_pages(_, _, _, _)
pdf_pages(pages, i, all_texts, all_boxes) ==
    IF i > Len(pages)
    THEN [result |-> "returned", exc |-> "",
          response |-> [text |-> all_texts, boxes |-> all_boxes]]
    ELSE LET r == ip_process_image(pages[i].ocr, pages[i].llm)
         IN  IF r.result = "raised" THEN Raised(r.exc)
             ELSE IF "text" \notin DOMAIN r.response THEN Raised("'text'")
             ELSE IF "boxes" \notin DOMAIN r.response THEN Raised("'boxes'")
             ELSE pdf_pages(pages, i + 1,
                      IF r.response.text # ""
                      THEN all_texts \o (IF all_texts = "" THEN "" ELSE "\n\n")
                               \o "Page " \o ToString(i) \o ":\n" \o r.response.text
                      ELSE all_texts,
                      all_boxes \o r.response.boxes)

\* process_pdf(pdf_path, dpi): convert_from_path raises or gives the pages
process_pdf(pdf) ==
    IF pdf.kind = "raise" THEN Raised(pdf.msg)
    ELSE pdf_pages(pdf.pages, 1, "", <<>>)

ImageExtensions == {".png", ".jpg", ".jpeg", ".tiff", ".bmp"}

\* process_document(file_path, dpi) of process_document.py
process_document(file_path, ocr, llm, pdf) ==
    LET ext == Lower(splitext(file_path)[2])
    IN  IF ext = ".pdf" THEN process_pdf(pdf)
        ELSE IF ext \in ImageExtensions THEN ip_process_image(ocr, llm)
        ELSE Raised("Unsupported file type: " \o ext)

\* the path process_folder writes the result of filename to
output_path(output_dir, filename) ==
    path_join(output_dir, splitext(filename)[1] \o ".json")

\* a variant of the loop of process_folder without the try/except: an
\* exception ends the loop
todo_after_abort(left, entry, res) ==
    IF res = "raised" THEN {} ELSE left \ {entry}

\* what is left of the loop of process_folder after an entry: the body is
\* inside try/except, so the loop goes on whatever happened
todo_after(left, entry, res) == left \ {entry}

(***************************************************************************)
(* BatchSpec: process_folder(input_dir, output_dir) on a directory         *)
(***************************************************************************)
MaxFiles == 2

MaxPages == 2

input_dir == "in"

output_dir == "out"

DirEntries ==
    {[name |-> "a.png", isfile |-> TRUE],
     [name |-> "a.jpg", isfile |-> TRUE],
     [name |-> "b.PNG", isfile |-> TRUE],
     [name |-> "b.pdf", isfile |-> TRUE],
     [name |-> "notes.txt", isfile |-> TRUE],
     [name |-> ".bmp", isfile |-> TRUE],
     [name |-> "sub.png", isfile |-> FALSE]}

BatchOcrOutcomes ==
    {[kind |-> "unreadable", msg |-> "Could not read image: doc.png"],
     [kind |-> "text", text |-> "Random memo with no structure"],
     [kind |-> "text", text |-> "STORE A\nTOTAL: $12.99\nCASH $12.99\n01/02/2023"]}

BatchLlmOutcomes ==
    {[kind |-> "raise", msg |-> ""],
     [kind |-> "content", parses |-> TRUE, value |-> ReceiptObject]}

PageOutcomes ==
    {[ocr |-> o, llm |-> l] : o \in BatchOcrOutcomes, l \in BatchLlmOutcomes}

RECURSIVE SeqsUpTo(_, _)
SeqsUpTo(S, n) ==
    IF n = 0 THEN {<<>>}
    ELSE LET shorter == SeqsUpTo(S, n - 1)
         IN  shorter \cup {Append(q, x) : q \in shorter, x \in S}

PdfOutcomes ==
    {[kind |-> "raise", msg |-> "Unable to get page count."]}
      \cup {[kind |-> "pages", pages |-> ps] : ps \in SeqsUpTo(PageOutcomes, MaxPages)}

\* which step of the document failed, "none" when none did
FailureOf(r) ==
    IF r.result = "raised" THEN "raised"
    ELSE IF HasError(r.response) /\ TypeOf(r.response) # "other" THEN "extraction"
    ELSE "none"

\* the answers the collaborators give for one document: those of the image
\* reader, the OCR engine and the extraction call when it is read as an
\* image, those of the PDF converter and of its pages when it is a PDF
DocAnswers ==
    {[ocr |-> o, llm |-> l, pdf |-> [kind |-> "raise", msg |-> "Unable to get page count."]] :
        o \in BatchOcrOutcomes, l \in BatchLlmOutcomes}
      \cup {[ocr |-> [kind |-> "unreadable", msg |-> "Could not read image: doc.png"],
             llm |-> [kind |-> "raise", msg |-> ""],
             pdf |-> p] : p \in PdfOutcomes}

\* what process_document can do on each entry of the directory, over the
\* answers of the collaborators
DocResults ==
    {[name |-> e.name,
      results |->
          {process_document(path_join(input_dir, e.name), a.ocr, a.llm, a.pdf) :
              a \in DocAnswers}] : e \in DirEntries}

BatchInit ==
    /\ impl = "process_folder"
    /\ pc = "loop"
    /\ docs = DocResults
    /\ listing \in {L \in SUBSET DirEntries : Cardinality(L) \in 1..MaxFiles}
    /\ todo = listing
    /\ attempts = <<>>
    /\ outputs = <<>>
    /\ state = EmptyDict /\ record = EmptyDict /\ result = "running"
    /\ calls = <<>> /\ io = NoIo /\ steps = 0
    /\ ClassifierIdle
    /\ AuxIdle

\* one turn of the loop on a regular file: process_document, then the
\* result written to the output file; an exception of either is printed
Batch_File ==
    /\ impl = "process_folder" /\ pc = "loop"
    /\ \E entry \in todo, doc \in docs, written \in BOOLEAN :
          /\ entry.isfile
          /\ doc.name = entry.name
          /\ \E r \in doc.results :
                LET out == output_path(output_dir, entry.name)
                    res == IF r.result = "returned" /\ ~written
                           THEN "raised" ELSE r.result
                IN  /\ attempts' = Append(attempts,
                           [name |-> entry.name, result |-> r.result,
                            exc |-> r.exc, record |-> r.response,
                            failure |-> FailureOf(r)])
                    /\ outputs' =
                           IF r.result = "returned" /\ written
                           THEN [q \in DOMAIN outputs \cup {out} |->
                                   [writers |->
                                        (IF q \in DOMAIN outputs
                                         THEN outputs[q].writers ELSE <<>>)
                                          \o (IF q = out THEN <<entry.name>> ELSE <<>>),
                                    content |->
                                        IF q = out THEN r.response
                                        ELSE outputs[q].content]]
                           ELSE outputs
                    /\ todo' = todo_after(todo, entry, res)
    /\ UNCHANGED <<impl, pc, listing, docs, state, record, result, calls, io,
                   steps, text, verdict, auxVars>>

\* one turn of the loop on an entry that is not a regular file
Batch_Skip ==
    /\ impl = "process_folder" /\ pc = "loop"
    /\ \E entry \in todo :
          /\ ~entry.isfile
          /\ todo' = todo \ {entry}
    /\ UNCHANGED <<impl, pc, listing, attempts, outputs, docs, state, record,
                   result, calls, io, steps, text, verdict, auxVars>>

\* the loop is over: process_folder returns
Batch_Return ==
    /\ impl = "process_folder" /\ pc = "loop"
    /\ todo = {}
    /\ pc' = "done"
    /\ UNCHANGED <<impl, batchVars, state, record, result, calls, io, steps,
                   text, verdict, auxVars>>

BatchNext == Batch_File \/ Batch_Skip \/ Batch_Return

BatchSpec == BatchInit /\ [][BatchNext]_vars

\* each turn of the loop ends, and the interpreter goes on to the next
FairBatchSpec == BatchSpec /\ WF_vars(BatchNext)

RegularFiles == {e.name : e \in {x \in listing : x.isfile}}

Attempted == {attempts[i].name : i \in 1..Len(attempts)}

(***************************************************************************)
(* DecideSpec: the decision of classify_document on every pair of scores   *)
(* up to MaxScore sixths                                                   *)
(***************************************************************************)
MaxScore == 30

DecideInit ==
    /\ impl = "decision"
    /\ pc = "input"
    /\ scores \in (0..MaxScore) \X (0..MaxScore)
    /\ verdict = EmptyDict
    /\ text = ""
    /\ passes = <<>> /\ runs = <<>> /\ pdf_path = "" /\ pdf_answer = NotCalled
    /\ state = EmptyDict /\ record = EmptyDict /\ result = "running"
    /\ calls = <<>> /\ io = NoIo /\ steps = 0
    /\ BatchIdle

\* classify_document from the normalisation of the scores on
Decide_Step ==
    /\ impl = "decision" /\ pc = "input"
    /\ verdict' = Decide(scores[1], scores[2])
    /\ pc' = "decided"
    /\ UNCHANGED <<impl, state, record, result, calls, io, steps, text, batchVars,
                   auxVars>>

DecideNext == Decide_Step

DecideSpec == DecideInit /\ [][DecideNext]_vars

(***************************************************************************)
(* CleanSpec: TextProcessor.clean_text applied again and again to the      *)
(* texts made of at most MaxTokens of the tokens below                     *)
(***************************************************************************)
MaxTokens == 5

MaxPasses == 2

CleanTokens == {"1", "23", "45", " ", ".", "I", "\n"}

RECURSIVE TokenTexts(_)
TokenTexts(n) ==
    IF n = 0 THEN {""}
    ELSE LET shorter == TokenTexts(n - 1)
         IN  shorter \cup {s \o t : s \in shorter, t \in CleanTokens}

CleanInit ==
    /\ impl = "normalizer"
    /\ pc = "input"
    /\ text \in TokenTexts(MaxTokens)
    /\ passes = <<>>
    /\ verdict = EmptyDict
    /\ scores = <<>> /\ runs = <<>> /\ pdf_path = "" /\ pdf_answer = NotCalled
    /\ state = EmptyDict /\ record = EmptyDict /\ result = "running"
    /\ calls = <<>> /\ io = NoIo /\ steps = 0
    /\ BatchIdle

\* text_processor.clean_text on the text, or on the result of the pass before
Clean_Step ==
    /\ impl = "normalizer" /\ Len(passes) < MaxPasses
    /\ passes' = Append(passes,
                        clean_text(IF passes = <<>> THEN text
                                   ELSE passes[Len(passes)]))
    /\ pc' = "cleaned"
    /\ UNCHANGED <<impl, state, record, result, calls, io, steps, text, verdict,
                   batchVars, scores, runs, pdf_path, pdf_answer>>

CleanNext == Clean_Step

CleanSpec == CleanInit /\ [][CleanNext]_vars

(***************************************************************************)
(* PdfSpec: process_document on the path of a PDF                          *)
(***************************************************************************)
PdfPaths == {"in/b.pdf", "in/scan.PDF"}

PdfInit ==
    /\ impl = "process_document"
    /\ pc = "start"
    /\ pdf_path \in PdfPaths
    /\ pdf_answer \in PdfOutcomes
    /\ passes = <<>> /\ scores = <<>> /\ runs = <<>>
    /\ state = EmptyDict /\ record = EmptyDict /\ result = "running"
    /\ calls = <<>> /\ io = NoIo /\ steps = 0
    /\ ClassifierIdle
    /\ BatchIdle

\* process_document(file_path, dpi) of process_document.py
Pdf_Process ==
    /\ impl = "process_document" /\ pc = "start"
    /\ LET r == process_document(pdf_path, NotCalled, NotCalled, pdf_answer)
       IN  /\ result' = r.result
           /\ record' = r.response
    /\ pc' = "done"
    /\ UNCHANGED <<impl, state, calls, io, steps, text, verdict, batchVars,
                   auxVars>>

PdfNext == Pdf_Process

PdfSpec == PdfInit /\ [][PdfNext]_vars

\* the PDF has at least one page and process_image returns on each of them
AllPagesReturn ==
    /\ pdf_answer.kind = "pages"
    /\ Len(pdf_answer.pages) >= 1
    /\ \A p \in 1..Len(pdf_answer.pages) :
          ip_process_image(pdf_answer.pages[p].ocr,
                           pdf_answer.pages[p].llm).result = "returned"

(***************************************************************************)
(* EquivSpec: OCRPipeline.process_image and the graph-based                *)
(* process_document on the same answers of the collaborators               *)
(***************************************************************************)
\* OCRPipeline.process_image(image_path), the collaborators answering ocr,
\* cls and ext: the returned state and the calls made
OCRPipeline_process_image(ocr, cls, ext) ==
    LET s1 == ocr_process_image(InitialState, ocr)
        c1 == ocr_calls(InitialState, ocr)
    IN  IF s1.error # "" THEN [record |-> s1, calls |-> c1]
        ELSE LET s2 == DocumentClassifier_classify_document(s1, cls)
                 c2 == c1 \o classify_calls(s1)
             IN  IF s2.error # "" THEN [record |-> s2, calls |-> c2]
                 ELSE [record |-> extract_data(s2, ext),
                       calls |-> c2 \o extract_calls(s2)]

\* process_document(image_path) of ocr_pipeline.py: graph.invoke on the
\* initial state, then the returned dictionary
graph_process_document(ocr, cls, ext) ==
    LET s1 == ocr_process_image(InitialState, ocr)
        c1 == ocr_calls(InitialState, ocr)
        s2 == DocumentClassifier_classify_document(s1, cls)
        c2 == c1 \o classify_calls(s1)
    IN  IF should_extract(s2)
        THEN [record |-> graph_result(extract_data(s2, ext)),
              calls |-> c2 \o extract_calls(s2)]
        ELSE [record |-> graph_result(s2), calls |-> c2]

EquivInit ==
    /\ impl = "both"
    /\ pc = "start"
    /\ io \in [ocr : OcrOutcomes, cls : ClassifierResponses, ext : ExtractorResponses]
    /\ runs = <<>>
    /\ passes = <<>> /\ scores = <<>> /\ pdf_path = "" /\ pdf_answer = NotCalled
    /\ state = EmptyDict /\ record = EmptyDict /\ result = "running"
    /\ calls = <<>> /\ steps = 0
    /\ ClassifierIdle
    /\ BatchIdle

\* OCRPipeline().process_image(image_path)
Equiv_Pipeline ==
    /\ impl = "both" /\ "OCRPipeline" \notin DOMAIN runs
    /\ runs' = ("OCRPipeline" :> OCRPipeline_process_image(io.ocr, io.cls, io.ext))
                  @@ runs
    /\ UNCHANGED <<impl, pc, state, record, result, calls, io, steps, text,
                   verdict, batchVars, passes, scores, pdf_path, pdf_answer>>

\* process_document(image_path) of ocr_pipeline.py
Equiv_Graph ==
    /\ impl = "both" /\ "graph" \notin DOMAIN runs
    /\ runs' = ("graph" :> graph_process_document(io.ocr, io.cls, io.ext)) @@ runs
    /\ UNCHANGED <<impl, pc, state, record, result, calls, io, steps, text,
                   verdict, batchVars, passes, scores, pdf_path, pdf_answer>>

EquivNext == Equiv_Pipeline \/ Equiv_Graph

EquivSpec == EquivInit /\ [][EquivNext]_vars

(***************************************************************************)
(* Properties                                                              *)
(***************************************************************************)
\* C1: a document classified "other" ends as a success: the Extractor is
\* not invoked and the returned record has neither structured_data nor
\* error, in each of the three orchestrators.
C1_OtherIsTerminalSuccess ==
    (Returned /\ TypeOf(record) = "other") =>
        /\ CountCalls(calls, "extract") = 0
        /\ ~HasData(record)
        /\ ~HasError(record)

\* C2: a returned record has structured_data and no error, or an error and
\* no structured_data, or neither and the type "other"; never both, and a
\* receipt or invoice record never neither.
C2_ExactlyOneOutcome ==
    Returned =>
        /\ ~(HasData(record) /\ HasError(record))
        /\ (~HasData(record) /\ ~HasError(record)) => TypeOf(record) = "other"
        /\ Cardinality({k \in {"data", "error", "other"} :
              \/ k = "data" /\ HasData(record) /\ ~HasError(record)
              \/ k = "error" /\ HasError(record) /\ ~HasData(record)
              \/ k = "other" /\ ~HasData(record) /\ ~HasError(record)
                             /\ TypeOf(record) = "other"}) = 1

C2_Witness ==
    /\ Returned /\ impl = "graph"
    /\ ~HasData(record) /\ ~HasError(record) /\ TypeOf(record) = "other"

\* C3: once error is set it stays set, and classify_document and
\* extract_data, in any order and any number of times, leave cleaned_text,
\* classification and structured_data as they are.
C3_ErrorIsSticky ==
    [][state.error # "" =>
          /\ state'.error # ""
          /\ state'.cleaned_text = state.cleaned_text
          /\ state'.classification = state.classification
          /\ state'.structured_data = state.structured_data]_vars

\* an OCR failure, then stages applied to the failed state, extract_data
\* among them
C3_Witness ==
    /\ impl = "stages" /\ steps >= 2
    /\ OcrFailed
    /\ state.error = OtherMessage("other")

\* C4: when the image read or the OCR fails, neither the Normalizer nor the
\* Classifier nor the Extractor runs, and the run ends with a record whose
\* error is set and whose cleaned_text is empty.
C4_OcrFailureRecorded ==
    (Finished /\ OcrFailed) =>
        /\ CountCalls(calls, "clean_text") = 0
        /\ CountCalls(calls, "classify") = 0
        /\ CountCalls(calls, "extract") = 0
        /\ Returned
        /\ HasError(record)
        /\ record.cleaned_text = ""

\* C5: when the Extractor call raises or its output does not parse, it was
\* called once, for a receipt or an invoice, nothing is raised to the
\* caller, and the record has a non-empty error and no structured_data.
C5_ExtractionFailureSurfaced ==
    (Finished /\ ExtractFailed) =>
        /\ CountCalls(calls, "extract") = 1
        /\ Returned
        /\ TypeOf(record) \in {"receipt", "invoice"}
        /\ HasError(record)
        /\ ~HasData(record)

C5_Witness ==
    /\ Finished /\ impl = "image_processor"
    /\ io.ext.kind = "content" /\ ~io.ext.parses
    /\ HasError(record)

\* C6: no failure of a document leaves process_document as an exception;
\* the result of a failed document carries raw_text, cleaned_text and a
\* non-empty error.
C6_FailuresAttached ==
    \A i \in 1..Len(attempts) :
        /\ attempts[i].result = "returned"
        /\ attempts[i].failure # "none" =>
              /\ HasError(attempts[i].record)
              /\ {"raw_text", "cleaned_text"} \subseteq DOMAIN attempts[i].record

\* every regular file of the directory is attempted once or still to come,
\* whatever happened to the files before it, and when process_folder has
\* returned all of them have been attempted
C7_AllAttempted ==
    /\ Attempted \cup {e.name : e \in {x \in todo : x.isfile}} = RegularFiles
    /\ Len(attempts) = Cardinality(Attempted)
    /\ pc = "done" => todo = {} /\ Attempted = RegularFiles

\* C7: in process_folder the failure of one document does not end the
\* batch: every regular file of the directory is attempted, and the batch
\* ends after the last one.
C7_BatchSurvivesFailures == []C7_AllAttempted /\ <>(pc = "done")

\* a first document failed, a later one was still attempted, and the batch
\* is over
C7_Witness ==
    /\ pc = "done"
    /\ Len(attempts) >= 2
    /\ attempts[1].result = "raised"

\* C8: two distinct files of the input directory are never written to the
\* same output path.
C8_OneInputPerOutput ==
    \A q \in DOMAIN outputs : Len(outputs[q].writers) <= 1

\* C9: the confidence of classify_document is in [0, 1], and with both
\* scores zero (the empty text among them) the result is ("other", 0).
C9_ConfidenceInUnit ==
    pc = "classified" =>
        /\ InUnit(verdict.confidence)
        /\ (receiptScore = 0 /\ invoiceScore = 0) =>
              verdict.type = "other" /\ verdict.confidence[1] = 0

C9_Witness ==
    /\ pc = "classified" /\ text = ""
    /\ verdict.type = "other" /\ verdict.confidence[1] = 0

\* the texts C10 is about: at least 4 distinct receipt keywords, at least 3
\* price matches and a date
C10_Case ==
    /\ pc = "classified"
    /\ ReceiptKeywordMatches(Lower(text)) >= 4
    /\ PriceMatches(Lower(text)) >= 3
    /\ HasDate(Lower(text))

\* C10 as stated: every such text scores at least 2, has a receipt
\* confidence above 0.6 and is classified "receipt".
C10_Original ==
    C10_Case =>
        /\ receiptScore >= 12
        /\ FracGt(<<receiptScore, receiptScore + invoiceScore>>, <<6, 10>>)
        /\ verdict.type = "receipt"

\* C10 amended: every such text scores at least 2; it is classified
\* "receipt", with a confidence above 0.6, exactly when its receipt score is
\* more than 1.5 times its invoice score, which is so whenever the invoice
\* score is at most 2.5.
C10_Amended ==
    C10_Case =>
        /\ receiptScore >= 12
        /\ verdict.type = "receipt" <=> 2 * receiptScore > 3 * invoiceScore
        /\ verdict.type = "receipt" =>
              /\ verdict.confidence = <<receiptScore, receiptScore + invoiceScore>>
              /\ FracGt(verdict.confidence, <<6, 10>>)
        /\ invoiceScore <= 15 => verdict.type = "receipt"

\* such a text with invoice marks too, still a receipt
C10_Witness ==
    /\ C10_Case
    /\ invoiceScore > 0
    /\ verdict.type = "receipt"
    /\ verdict.type = "receipt"


\* C12: clean_text is idempotent: a second pass gives what the first gave.
C12_Idempotent ==
    Len(passes) >= 2 => passes[2] = passes[1]

\* the record the stages of the run work on: the AgentState of the langchain
\* orchestrators, the response of image_processor.process_image
Working == IF impl = "image_processor" THEN record ELSE state

\* C13: the classification stage never fails: once the Classifier has run on
\* a normalized record, the record has no classification error and a
\* classification whose type is receipt, invoice or other, in each
\* orchestrator.
C13_ClassificationNeverFails ==
    (CountCalls(calls, "classify") > 0) =>
        /\ ~StartsAt(IF "error" \in DOMAIN Working THEN Working.error ELSE "",
                     1, "Classification failed")
        /\ TypeOf(Working) \in DocTypes

\* C14: every call of the Extractor is made with the cleaned text of the
\* record and its classification type, in each orchestrator.
C14_ExtractorGetsTextAndType ==
    \A i \in 1..Len(calls) :
        calls[i].op = "extract" =>
            calls[i].args = <<Working.cleaned_text, TypeOf(Working)>>

\* the terminal states of a record
Extracted(r) == HasData(r) /\ ~HasError(r)

Skipped(r) == ~HasData(r) /\ ~HasError(r) /\ TypeOf(r) = "other"

Failed(r) == HasError(r)

\* the place of a collaborator call in the order of the stages
StageRank(op) ==
    CASE op = "read" -> 0
      [] op = "ocr" -> 1
      [] op = "clean_text" -> 2
      [] op = "classify" -> 3
      [] op = "extract" -> 4

\* the calls made so far are in the order of the stages, each stage at most
\* once; a record that is EXTRACTED or SKIPPED was normalized and then
\* classified; a finished run of OCRPipeline.process_image or of the graph
\* has returned a record, and a returned record is in exactly one of the
\* terminal states
C15_OneTerminalInOrder ==
    /\ \A i, j \in 1..Len(calls) :
          i < j => StageRank(calls[i].op) < StageRank(calls[j].op)
    /\ (Returned /\ (Extracted(record) \/ Skipped(record))) =>
          /\ CountCalls(calls, "clean_text") = 1
          /\ CountCalls(calls, "classify") = 1
    /\ (pc = "done" /\ impl \in {"OCRPipeline", "graph"}) => Returned
    /\ Returned =>
          Cardinality({k \in {"EXTRACTED", "SKIPPED", "FAILED"} :
              \/ k = "EXTRACTED" /\ Extracted(record)
              \/ k = "SKIPPED" /\ Skipped(record)
              \/ k = "FAILED" /\ Failed(record)}) = 1

\* C15: every run of OCRPipeline.process_image and of the graph, its
\* collaborator calls returning, ends, in exactly one of EXTRACTED, SKIPPED
\* and FAILED; the stages run in the order normalize, classify, extract,
\* each at most once, and EXTRACTED or SKIPPED comes only after NORMALIZED
\* and CLASSIFIED.
C15_RunsOnceToTerminal ==
    /\ []C15_OneTerminalInOrder
    /\ (impl \in {"OCRPipeline", "graph"}) ~> (pc = "done")

\* a run of the graph that ended SKIPPED, after normalizing and classifying
C15_Witness ==
    /\ pc = "done" /\ impl = "graph"
    /\ Skipped(record)
    /\ CountCalls(calls, "clean_text") = 1
    /\ CountCalls(calls, "classify") = 1
    /\ CountCalls(calls, "extract") = 0

\* C16: for a PDF of at least one page, process_image returning on every
\* page, process_pdf returns the combined text and boxes of the pages, and
\* process_document returns that result for a .pdf path.
C16_PdfCombined ==
    (pc = "done" /\ impl = "process_document" /\ AllPagesReturn) =>
        /\ result = "returned"
        /\ {"text", "boxes"} \subseteq DOMAIN record

\* C17: on the same answers of the collaborators OCRPipeline.process_image
\* and the graph-based process_document end with the same cleaned_text,
\* classification, structured_data and error, and make the same calls.
C17_OrchestratorsAgree ==
    DOMAIN runs = {"OCRPipeline", "graph"} =>
        /\ \A f \in {"cleaned_text", "classification", "structured_data", "error"} :
              runs["OCRPipeline"].record[f] = runs["graph"].record[f]
        /\ runs["OCRPipeline"].calls = runs["graph"].calls

\* the two branch conditions of classify_document on a pair of scores
ReceiptQualifies ==
    /\ scores[1] >= 12
    /\ FracGt(<<scores[1], scores[1] + scores[2]>>, <<6, 10>>)

InvoiceQualifies ==
    /\ scores[2] >= 12
    /\ FracGt(<<scores[2], scores[1] + scores[2]>>, <<6, 10>>)

\* classify_document with the invoice branch checked before the receipt
\* branch: the decision on the swapped scores, with the two types renamed
InvoiceFirst(receipt_score, invoice_score) ==
    LET d == Decide(invoice_score, receipt_score)
    IN  [d EXCEPT !.type = IF @ = "receipt" THEN "invoice"
                           ELSE IF @ = "invoice" THEN "receipt" ELSE @]

\* C18: on every pair of non-negative scores the receipt branch condition
\* and the invoice branch condition never hold together, and checking the
\* invoice branch first gives the same type and confidence.
C18_BranchesExclusive ==
    pc = "decided" =>
        /\ ~(ReceiptQualifies /\ InvoiceQualifies)
        /\ verdict = InvoiceFirst(scores[1], scores[2])

\* both scores reach 2 and the invoice branch is the one taken
C18_Witness ==
    /\ pc = "decided"
    /\ scores[1] >= 12 /\ scores[2] >= 12
    /\ verdict.type = "invoice"

=============================================================================
